---- MODULE Spec2Model ----
(***************************************************************************)
(* A model of OverlapAnalysis (src/overlap_analysis.py): the unigram       *)
(* normalizer, the overlap scorer, the label index, the pair enumerator,   *)
(* the per-pair aggregator with its file cache, and the batch run, with    *)
(* the process being killed and started again over the same directory.     *)
(*                                                                         *)
(* Strings are sequences of one-character strings.  A Python value that    *)
(* may not be a string is a record [t |-> its type, v |-> its characters]. *)
(* Floats that the code divides are exact rationals [n, d] in lowest terms.*)
(***************************************************************************)
EXTENDS Integers, Sequences, FiniteSets, TLC

VARIABLES
    dataset_csv,                 \* the rows of the input file DATASET_PATH
    dataset_df,                  \* self.dataset_df
    label_frequency_df,          \* self.label_frequency_df
    unspsc_title_similarity_df,  \* self.unspsc_title_similarity_df
    crossed_lid_dfs,             \* compute_class_overlaps' table while it is being saved
    similarity,                  \* the values progress_apply has collected so far
    files,                       \* the three result files of the data directory
    overlap_scores_dir,          \* whether OVERLAP_SCORES_DIR exists
    cache,                       \* the files of OVERLAP_SCORES_DIR, by name
    pc,                          \* where run_overlap_analysis stands
    status,                      \* running, finished, killed, or the exception raised
    preexisting,                 \* history: the cache files present when the run started
    writes,                      \* history: how often each cache file was opened for writing
    miss_returned,               \* history: what the computation that saved a cache file returned
    matrix_writes,               \* history: how often this run opened OA_RESULT_PATH
    call,                        \* a single function call: its name and arguments
    ret                          \* what that call returned or raised

runVars == <<dataset_csv, dataset_df, label_frequency_df, unspsc_title_similarity_df,
             crossed_lid_dfs, similarity, files, overlap_scores_dir, cache, pc, status,
             preexisting, writes, miss_returned, matrix_writes>>
callVars == <<call, ret>>
vars == <<runVars, callVars>>

----------------------------------------------------------------------------
(* Bounds of the model *)

\* longest raw string given to the normalizer
MaxLen == 3
\* largest decimal digit used in a label code of the level derivation
MaxDigit == 1
\* most labels in a label index given to the pair enumerator
MaxLabels == 4
\* rows of the input dataset
NumRecords == 4

(* Program constants *)

\* "8-digit UNSPSC code"
CodeWidth == 8

----------------------------------------------------------------------------
(* Values *)

Str(s) == [t |-> "str", v |-> s]
NaN == [t |-> "float", v |-> <<>>]
None == [t |-> "NoneType", v |-> <<>>]
IntValue == [t |-> "int", v |-> <<>>]

Returned(x) == [exc |-> "none", val |-> x]
Raised(e) == [exc |-> e, val |-> <<>>]

Min(a, b) == IF a < b THEN a ELSE b

RECURSIVE Gcd(_, _)
Gcd(a, b) == IF b = 0 THEN a ELSE Gcd(b, a % b)

\* the rational n/d (d > 0) in lowest terms
Rat(n, d) == LET g == Gcd(n, d) IN [n |-> n \div g, d |-> d \div g]
RatAdd(x, y) == Rat(x.n * y.d + y.n * x.d, x.d * y.d)
RatMulInt(x, k) == Rat(x.n * k, x.d)
RatLeq(x, y) == x.n * y.d <= y.n * x.d
Zero == Rat(0, 1)

\* Python's x / y on numbers: ZeroDivisionError when y is 0
TrueDiv(x, y) ==
    IF y.n = 0 THEN Raised("ZeroDivisionError")
    ELSE Returned(Rat(x.n * y.d, x.d * y.n))

RECURSIVE SumScores(_)
SumScores(scores) ==
    IF scores = <<>> THEN Zero ELSE RatAdd(Head(scores), SumScores(Tail(scores)))

\* sum(column) / len(column)
Mean(scores) == TrueDiv(SumScores(scores), Rat(Len(scores), 1))

----------------------------------------------------------------------------
(* Strings *)

\* str.replace(old, ' ') for a one-character old
Replace(s, old, new) == [i \in 1..Len(s) |-> IF s[i] = old THEN new ELSE s[i]]

\* str.split(): split on runs of whitespace, no empty token
RECURSIVE SplitFrom(_, _, _)
SplitFrom(s, i, cur) ==
    IF i > Len(s) THEN (IF cur = <<>> THEN <<>> ELSE <<cur>>)
    ELSE IF s[i] = " "
         THEN (IF cur = <<>> THEN <<>> ELSE <<cur>>) \o SplitFrom(s, i + 1, <<>>)
         ELSE SplitFrom(s, i + 1, Append(cur, s[i]))
Split(s) == SplitFrom(s, 1, <<>>)

\* str.split(' '): split at every single space, empty tokens kept; ''.split(' ') is ['']
RECURSIVE SplitSpaceFrom(_, _, _)
SplitSpaceFrom(s, i, cur) ==
    IF i > Len(s) THEN <<cur>>
    ELSE IF s[i] = " "
         THEN <<cur>> \o SplitSpaceFrom(s, i + 1, <<>>)
         ELSE SplitSpaceFrom(s, i + 1, Append(cur, s[i]))
SplitSpace(s) == SplitSpaceFrom(s, 1, <<>>)

\* ' '.join(tokens)
RECURSIVE Join(_)
Join(tokens) ==
    IF tokens = <<>> THEN <<>>
    ELSE IF Len(tokens) = 1 THEN tokens[1]
    ELSE tokens[1] \o <<" ">> \o Join(Tail(tokens))

Range(f) == {f[i] : i \in DOMAIN f}

----------------------------------------------------------------------------
(* Unigram normalizer *)

Specials == <<",", ".", "-">>

RECURSIVE ReplaceEach(_, _)
ReplaceEach(s, specials) ==
    IF specials = <<>> THEN s
    ELSE ReplaceEach(Replace(s, Head(specials), " "), Tail(specials))

remove_special_chars(lid_string) == ReplaceEach(lid_string, Specials)

\* the loop of reduce_by_unigrams: append a word the first time it is seen
RECURSIVE AppendUnseen(_, _)
AppendUnseen(unigrams, words) ==
    IF words = <<>> THEN unigrams
    ELSE AppendUnseen(IF Head(words) \in Range(unigrams) THEN unigrams
                      ELSE Append(unigrams, Head(words)),
                      Tail(words))

reduce_by_unigrams(lid_string) ==
    IF lid_string.t = "float" THEN Returned(<<>>)
    ELSE IF lid_string.t # "str" THEN Raised("AttributeError")
    ELSE Returned(Join(AppendUnseen(<<>>, Split(remove_special_chars(lid_string.v)))))

----------------------------------------------------------------------------
(* Overlap scorer *)

\* a scorer that split on runs of whitespace: ''.split() is []
ScorerSplitWhitespace(lid) == Split(lid)

\* str.split(' ') of unigrams_in_common
ScorerSplit(lid) == SplitSpace(lid)

\* crossed_lid_dfs.unigram_overlap_score * 100
Scaled(ratio) == RatMulInt(ratio, 100)

\* common_unigrams is the set of shared tokens: the order in which ','.join
\* lists them is the iteration order of a Python set, which is unspecified
unigrams_in_common(lid_1, lid_2) ==
    LET unigrams_1 == Range(ScorerSplit(lid_1))
        unigrams_2 == Range(ScorerSplit(lid_2))
        common_unigrams == unigrams_1 \cap unigrams_2
        ratio == TrueDiv(Rat(Cardinality(common_unigrams), 1),
                         Rat(Cardinality(unigrams_1) + Cardinality(unigrams_2), 2))
    IN  IF ratio.exc # "none" THEN ratio
        ELSE Returned([ratio |-> ratio.val, common |-> common_unigrams])

----------------------------------------------------------------------------
(* Label level *)

RECURSIVE IntToStr(_)
IntToStr(k) == IF k < 10 THEN <<k>> ELSE Append(IntToStr(k \div 10), k % 10)

RECURSIVE DigitsToInt(_)
DigitsToInt(ds) ==
    IF ds = <<>> THEN 0 ELSE 10 * DigitsToInt(SubSeq(ds, 1, Len(ds) - 1)) + ds[Len(ds)]

\* [m.start() for m in re.finditer(r'(?=(00))', str(code))]: ascending, overlapping
ZeroPairStarts(digits) ==
    LET at == {i \in 0..(Len(digits) - 2) : digits[i + 1] = 0 /\ digits[i + 2] = 0}
    IN  [k \in 1..Cardinality(at) |->
            CHOOSE i \in at : Cardinality({j \in at : j < i}) = k - 1]

Level(code) ==
    LET level == ZeroPairStarts(IntToStr(code))
    IN  4 - Len(level)
          + (IF Len(level) = 1 THEN (IF level[1] % 2 = 1 THEN 1 ELSE 0)
             ELSE Len(level) \div 2)

----------------------------------------------------------------------------
(* Pair enumerator *)

\* pd.MultiIndex.from_product([xs, xs]).reset_index(): one row per position pair
FromProduct(xs) ==
    LET n == Len(xs)
    IN  [k \in 1..(n * n) |-> <<xs[((k - 1) \div n) + 1], xs[((k - 1) % n) + 1]>>]

\* the filters without the second one: mirrored pairs stay
KeepPairNotEqual(row) == row.label_1 # row.label_2

\* the row filters of generate_interest_pairs: label_1 != label_2, then label_1 < label_2
KeepPair(row) == row.label_1 # row.label_2 /\ row.label_1 < row.label_2

\* the external model's score of two titles, left uninterpreted
get_spacy_similarity(title_1, title_2) == <<"similarity", title_1, title_2>>

InterestPairs(lf) ==
    LET label == [i \in 1..Len(lf) |-> lf[i].label]
        label_title == [i \in 1..Len(lf) |-> lf[i].label_title]
        crossed_labels == FromProduct(label)
        crossed_titles == FromProduct(label_title)
        concat == [k \in 1..Len(crossed_labels) |->
                      [label_1 |-> crossed_labels[k][1],
                       label_2 |-> crossed_labels[k][2],
                       label_title_1 |-> crossed_titles[k][1],
                       label_title_2 |-> crossed_titles[k][2]]]
        kept == SelectSeq(concat, KeepPair)
    IN  [k \in 1..Len(kept) |->
            [label_1 |-> kept[k].label_1,
             label_2 |-> kept[k].label_2,
             label_title_1 |-> kept[k].label_title_1,
             label_title_2 |-> kept[k].label_title_2,
             titles_similarity_score |->
                 get_spacy_similarity(kept[k].label_title_1, kept[k].label_title_2)]]

----------------------------------------------------------------------------
(* Tables and files *)

\* a stable sort of s, descending: gt[i][j] says that s[i] is greater than s[j]
SortDescending(s, gt) ==
    LET rank(i) == 1 + Cardinality({j \in 1..Len(s) :
                                       gt[j][i] \/ (~gt[i][j] /\ j < i)})
    IN  [k \in 1..Len(s) |-> s[CHOOSE i \in 1..Len(s) : rank(i) = k]]

\* df[name]: one column of a table
Column(df, name) == [i \in 1..Len(df) |-> df[i][name]]

\* no file at the path
Absent == [exists |-> FALSE, header |-> FALSE, rows |-> <<>>, complete |-> FALSE]
\* to_csv has opened the path for writing: the file is there, with nothing in it yet
Opened == [exists |-> TRUE, header |-> FALSE, rows |-> <<>>, complete |-> FALSE]
\* to_csv has written the header and every row and closed the file
Saved(rows) == [exists |-> TRUE, header |-> TRUE, rows |-> rows, complete |-> TRUE]
\* what a process killed inside to_csv leaves, to the row: nothing yet, or the header
\* and some of the rows
Truncations(rows) ==
    {Opened} \cup {[exists |-> TRUE, header |-> TRUE, rows |-> SubSeq(rows, 1, k),
                    complete |-> FALSE] : k \in 0..(Len(rows) - 1)}

\* pd.read_csv: EmptyDataError on a file without a header line
read_csv(file) ==
    IF ~file.header THEN Raised("EmptyDataError") ELSE Returned(file.rows)

\* an empty field of a text column is read back as NaN
ReadText(s) == IF s = <<>> THEN NaN ELSE Str(s)
ReadOverlapRow(row) ==
    [lid_1_reduced |-> ReadText(row.lid_1_reduced),
     lid_2_reduced |-> ReadText(row.lid_2_reduced),
     unigram_overlap_score |-> row.unigram_overlap_score,
     common_unigrams |-> row.common_unigrams,
     count |-> row.count]
read_overlap_csv(file) ==
    IF ~file.header THEN Raised("EmptyDataError")
    ELSE Returned([i \in 1..Len(file.rows) |-> ReadOverlapRow(file.rows[i])])

----------------------------------------------------------------------------
(* Label frequency index *)

\* self.title_dfs as the constructor read them: the sheets v23_1, v23_2, v23_3
title_dfs ==
    << <<[Code |-> 10100000, Title |-> "Live animals"],
         [Code |-> 10101500, Title |-> "Livestock"]>>,
       <<[Code |-> 10101500, Title |-> "Live animals"]>>,
       <<[Code |-> 10101501, Title |-> "Cats"]>> >>

RECURSIVE TitleFrom(_, _, _)
TitleFrom(sheets, unspsc_code, title) ==
    IF sheets = <<>> THEN title
    ELSE LET Matches(row) == row.Code = unspsc_code
             found == SelectSeq(Head(sheets), Matches)
         IN  TitleFrom(Tail(sheets), unspsc_code,
                       IF Len(found) > 0 THEN found[1].Title ELSE title)

get_unspsc_label_title(unspsc_code) == TitleFrom(title_dfs, unspsc_code, "Unknown")

\* Series.value_counts(): the distinct codes with their counts, most frequent first,
\* equal counts in order of first appearance
value_counts(codes) ==
    LET keys == AppendUnseen(<<>>, codes)
        n(code) == Cardinality({i \in 1..Len(codes) : codes[i] = code})
        counted == [k \in 1..Len(keys) |-> [code |-> keys[k], count |-> n(keys[k])]]
        More == [i \in 1..Len(keys) |->
                    [j \in 1..Len(keys) |-> counted[i].count > counted[j].count]]
    IN  SortDescending(counted, More)

KnownTitle(row) == row.label_title # "Unknown"

LabelFrequency(df) ==
    LET df_v23_levels == value_counts(Column(df, "v23_level3"))
        rows == [k \in 1..Len(df_v23_levels) |->
                    [label |-> df_v23_levels[k].code,
                     level |-> Level(df_v23_levels[k].code),
                     count |-> df_v23_levels[k].count,
                     label_title |-> get_unspsc_label_title(df_v23_levels[k].code)]]
    IN  SelectSeq(rows, KnownTitle)

----------------------------------------------------------------------------
(* Dataset normalization *)

\* Series.fillna('')
FillNa(x) == IF x.t \in {"float", "NoneType"} THEN Str(<<>>) ELSE x

PreprocessRow(row) ==
    LET p1 == FillNa(row.PartDescription1)
        p2 == FillNa(row.PartDescription2)
        inv == FillNa(row.InvoiceDescription)
        po == FillNa(row.PODescription)
        lid_concatenated == p1.v \o p2.v \o inv.v \o po.v
    IN  [v23_level3 |-> row.v23_level3,
         PartDescription1 |-> p1,
         PartDescription2 |-> p2,
         InvoiceDescription |-> inv,
         PODescription |-> po,
         lid_concatenated |-> lid_concatenated,
         lid_reduced |-> reduce_by_unigrams(Str(lid_concatenated)).val]

----------------------------------------------------------------------------
(* Cross-product aggregator *)

\* 'overlap_' + str(label_1) + '_' + str(label_2) + '.csv', kept as the two codes
CsvName(label_1, label_2) == <<label_1, label_2>>

\* a lookup under the name with the two codes exchanged
CacheIsFileSwapped(label_1, label_2) == CsvName(label_2, label_1) \in DOMAIN cache

\* os.path.isfile(os.path.join(self.OVERLAP_SCORES_DIR, csv_name))
CacheIsFile(label_1, label_2) == CsvName(label_1, label_2) \in DOMAIN cache

LidsOf(df, label) ==
    LET HasLabel(row) == row.v23_level3 = label
    IN  Column(SelectSeq(df, HasLabel), "lid_reduced")

\* the cross join of the two labels' lid_reduced with the scaled score, the shared
\* unigrams and the number of rows holding the same two strings
CrossedLids(df, label_1, label_2) ==
    LET df1 == LidsOf(df, label_1)
        df2 == LidsOf(df, label_2)
        n2 == Len(df2)
        lid1(k) == df1[((k - 1) \div n2) + 1]
        lid2(k) == df2[((k - 1) % n2) + 1]
        n == Len(df1) * n2
        same(k) == {j \in 1..n : lid1(j) = lid1(k) /\ lid2(j) = lid2(k)}
    IN  [k \in 1..n |->
            LET scored == unigrams_in_common(lid1(k), lid2(k))
            IN  [lid_1_reduced |-> lid1(k),
                 lid_2_reduced |-> lid2(k),
                 unigram_overlap_score |-> Scaled(scored.val.ratio),
                 common_unigrams |-> scored.val.common,
                 count |-> Cardinality(same(k))]]

OverlapScore(row) == row.unigram_overlap_score

\* crossed_lid_dfs.drop_duplicates().sort_values('unigram_overlap_score', ascending = False)
DropDuplicatesSorted(crossed) ==
    LET rows == AppendUnseen(<<>>, crossed)
        Higher == [i \in 1..Len(rows) |->
                      [j \in 1..Len(rows) |->
                          ~RatLeq(OverlapScore(rows[i]), OverlapScore(rows[j]))]]
    IN  SortDescending(rows, Higher)

\* sum(crossed_lid_dfs.unigram_overlap_score) / len(crossed_lid_dfs.unigram_overlap_score)
MeanOverlap(rows) == Mean(Column(rows, "unigram_overlap_score"))

----------------------------------------------------------------------------
(* The batch run: run_overlap_analysis, killed and started again *)

\* the rows a dataset is drawn from: a label code and four descriptions, each a
\* non-empty string or NaN (an empty field of the input file)
Record(code, p1, p2) ==
    [v23_level3 |-> code, PartDescription1 |-> p1, PartDescription2 |-> p2,
     InvoiceDescription |-> NaN, PODescription |-> NaN]
RecordPool ==
    { Record(10100000, Str(<<"a">>), NaN),
      Record(10100000, NaN, NaN),
      Record(10101500, Str(<<"a">>), Str(<<"-", "b">>)),
      Record(10101501, Str(<<",">>), NaN),
      Record(43211500, Str(<<"a">>), NaN) }

FileNames == {"label_frequency", "unspsc_title_similarity", "oa_results"}

Put(f, key, value) == [k \in DOMAIN f \cup {key} |-> IF k = key THEN value ELSE f[k]]

Init ==
    /\ dataset_csv \in [1..NumRecords -> RecordPool]
    /\ dataset_df = dataset_csv
    /\ label_frequency_df = <<>>
    /\ unspsc_title_similarity_df = <<>>
    /\ crossed_lid_dfs = <<>>
    /\ similarity = <<>>
    /\ files = [f \in FileNames |-> Absent]
    /\ overlap_scores_dir = FALSE
    /\ cache = <<>>
    /\ pc = "generate_label_frequency"
    /\ status = "running"
    /\ preexisting = {}
    /\ writes = <<>>
    /\ miss_returned = <<>>
    /\ matrix_writes = 0
    /\ call = [fn |-> "none", args |-> <<>>]
    /\ ret = [exc |-> "pending", val |-> <<>>]

At(place) == status = "running" /\ pc = place

memVars == <<dataset_df, label_frequency_df, unspsc_title_similarity_df, crossed_lid_dfs,
             similarity>>
histVars == <<preexisting, writes, miss_returned, matrix_writes>>

\* generate_label_frequency, the file found
LabelFrequencyFound ==
    /\ At("generate_label_frequency")
    /\ files["label_frequency"].exists
    /\ LET read == read_csv(files["label_frequency"])
       IN  IF read.exc # "none"
           THEN /\ status' = read.exc
                /\ UNCHANGED <<label_frequency_df, pc>>
           ELSE /\ label_frequency_df' = read.val
                /\ pc' = "generate_interest_pairs"
                /\ UNCHANGED status
    /\ UNCHANGED <<dataset_csv, dataset_df, unspsc_title_similarity_df, crossed_lid_dfs,
                   similarity, files, overlap_scores_dir, cache, histVars, callVars>>

\* generate_label_frequency, the file not found: up to the opening of the file
LabelFrequencyGenerate ==
    /\ At("generate_label_frequency")
    /\ ~files["label_frequency"].exists
    /\ label_frequency_df' = LabelFrequency(dataset_df)
    /\ files' = [files EXCEPT !["label_frequency"] = Opened]
    /\ pc' = "label_frequency_to_csv"
    /\ UNCHANGED <<dataset_csv, dataset_df, unspsc_title_similarity_df, crossed_lid_dfs,
                   similarity, overlap_scores_dir, cache, status, histVars, callVars>>

\* self.label_frequency_df.to_csv(self.LABEL_FREQUENCY_PATH) done
LabelFrequencySaved ==
    /\ At("label_frequency_to_csv")
    /\ files' = [files EXCEPT !["label_frequency"] = Saved(label_frequency_df)]
    /\ pc' = "generate_interest_pairs"
    /\ UNCHANGED <<dataset_csv, memVars, overlap_scores_dir, cache, status, histVars,
                   callVars>>

\* generate_interest_pairs, the file found
InterestPairsFound ==
    /\ At("generate_interest_pairs")
    /\ files["unspsc_title_similarity"].exists
    /\ LET read == read_csv(files["unspsc_title_similarity"])
       IN  IF read.exc # "none"
           THEN /\ status' = read.exc
                /\ UNCHANGED <<unspsc_title_similarity_df, pc>>
           ELSE /\ unspsc_title_similarity_df' = read.val
                /\ pc' = "preprocess_lids"
                /\ UNCHANGED status
    /\ UNCHANGED <<dataset_csv, dataset_df, label_frequency_df, crossed_lid_dfs,
                   similarity, files, overlap_scores_dir, cache, histVars, callVars>>

\* generate_interest_pairs, the file not found: up to the opening of the file.
\* What parallel_apply does on a frame without rows depends on the library's
\* version: it raises or it returns no scores.
InterestPairsGenerate ==
    /\ At("generate_interest_pairs")
    /\ ~files["unspsc_title_similarity"].exists
    /\ LET pairs == InterestPairs(label_frequency_df)
       IN  \E raises \in IF pairs = <<>> THEN BOOLEAN ELSE {FALSE} :
               IF raises
               THEN /\ status' = "ValueError"
                    /\ UNCHANGED <<unspsc_title_similarity_df, files, pc>>
               ELSE /\ unspsc_title_similarity_df' = pairs
                    /\ files' = [files EXCEPT !["unspsc_title_similarity"] = Opened]
                    /\ pc' = "unspsc_title_similarity_to_csv"
                    /\ UNCHANGED status
    /\ UNCHANGED <<dataset_csv, dataset_df, label_frequency_df, crossed_lid_dfs,
                   similarity, overlap_scores_dir, cache, histVars, callVars>>

\* self.unspsc_title_similarity_df.to_csv(self.UNSPSC_TITLE_SIMILARITY_PATH) done
InterestPairsSaved ==
    /\ At("unspsc_title_similarity_to_csv")
    /\ files' = [files EXCEPT
                    !["unspsc_title_similarity"] = Saved(unspsc_title_similarity_df)]
    /\ pc' = "preprocess_lids"
    /\ UNCHANGED <<dataset_csv, memVars, overlap_scores_dir, cache, status, histVars,
                   callVars>>

preprocess_lids ==
    /\ At("preprocess_lids")
    /\ dataset_df' = [i \in 1..Len(dataset_df) |-> PreprocessRow(dataset_df[i])]
    /\ pc' = "overlap_analysis"
    /\ UNCHANGED <<dataset_csv, label_frequency_df, unspsc_title_similarity_df,
                   crossed_lid_dfs, similarity, files, overlap_scores_dir, cache, status,
                   histVars, callVars>>

\* the row progress_apply is at
NextPair == unspsc_title_similarity_df[Len(similarity) + 1]
NextName == CsvName(NextPair.label_1, NextPair.label_2)

\* progress_apply has called compute_class_overlaps on every row but the last
AllButLastPairDone == Len(similarity) + 1 >= Len(unspsc_title_similarity_df)

\* progress_apply has called compute_class_overlaps on every row
AllPairsDone == Len(similarity) = Len(unspsc_title_similarity_df)

Scored(pair, value, path) ==
    [label_1 |-> pair.label_1, label_2 |-> pair.label_2, similarity |-> value,
     path |-> path]

\* compute_class_overlaps, the pair's file found: read it and return the mean of its rows
ComputeClassOverlapsCached ==
    /\ At("overlap_analysis")
    /\ ~AllPairsDone
    /\ CacheIsFile(NextPair.label_1, NextPair.label_2)
    /\ overlap_scores_dir' = TRUE
    /\ LET read == read_overlap_csv(cache[NextName])
           mean == IF read.exc # "none" THEN read ELSE MeanOverlap(read.val)
       IN  IF mean.exc # "none"
           THEN /\ status' = mean.exc
                /\ UNCHANGED similarity
           ELSE /\ similarity' = Append(similarity, Scored(NextPair, mean.val, "hit"))
                /\ UNCHANGED status
    /\ UNCHANGED <<dataset_csv, dataset_df, label_frequency_df, unspsc_title_similarity_df,
                   crossed_lid_dfs, files, cache, pc, histVars, callVars>>

\* compute_class_overlaps, the pair's file not found: up to the opening of the file
ComputeClassOverlapsCompute ==
    /\ At("overlap_analysis")
    /\ ~AllPairsDone
    /\ ~CacheIsFile(NextPair.label_1, NextPair.label_2)
    /\ overlap_scores_dir' = TRUE
    /\ LET crossed == CrossedLids(dataset_df, NextPair.label_1, NextPair.label_2)
       IN  IF crossed = <<>>
           THEN \* zip(*...) of no rows gives nothing to unpack
                /\ status' = "ValueError"
                /\ UNCHANGED <<crossed_lid_dfs, cache, pc, writes>>
           ELSE /\ crossed_lid_dfs' = crossed
                /\ cache' = Put(cache, NextName, Opened)
                /\ writes' = Put(writes, NextName,
                                 IF NextName \in DOMAIN writes
                                 THEN Min(writes[NextName] + 1, 2) ELSE 1)
                /\ pc' = "overlap_to_csv"
                /\ UNCHANGED status
    /\ UNCHANGED <<dataset_csv, dataset_df, label_frequency_df, unspsc_title_similarity_df,
                   similarity, files, preexisting, miss_returned, matrix_writes, callVars>>

\* the pair's to_csv done, and the return of the mean over the whole cross join
OverlapSaved ==
    /\ At("overlap_to_csv")
    /\ cache' = Put(cache, NextName, Saved(DropDuplicatesSorted(crossed_lid_dfs)))
    /\ LET mean == MeanOverlap(crossed_lid_dfs)
       IN  /\ similarity' = Append(similarity, Scored(NextPair, mean.val, "miss"))
           /\ miss_returned' = Put(miss_returned, NextName, mean.val)
    /\ crossed_lid_dfs' = <<>>
    /\ pc' = "overlap_analysis"
    /\ UNCHANGED <<dataset_csv, dataset_df, label_frequency_df, unspsc_title_similarity_df,
                   files, overlap_scores_dir, status, preexisting, writes, matrix_writes,
                   callVars>>

\* the final matrix: the pairs with the similarity column set
OaResult ==
    [k \in 1..Len(unspsc_title_similarity_df) |->
        [label_1 |-> unspsc_title_similarity_df[k].label_1,
         label_2 |-> unspsc_title_similarity_df[k].label_2,
         label_title_1 |-> unspsc_title_similarity_df[k].label_title_1,
         label_title_2 |-> unspsc_title_similarity_df[k].label_title_2,
         titles_similarity_score |-> unspsc_title_similarity_df[k].titles_similarity_score,
         similarity |-> similarity[k].similarity]]

\* progress_apply is through: the column is set and OA_RESULT_PATH opened.  Setting
\* a column from the result of apply on a frame without rows raises or not with the
\* library's version.
OaResultOpen ==
    /\ At("overlap_analysis")
    /\ AllPairsDone
    /\ \E raises \in IF unspsc_title_similarity_df = <<>> THEN BOOLEAN ELSE {FALSE} :
           IF raises
           THEN /\ status' = "ValueError"
                /\ UNCHANGED <<files, pc, matrix_writes>>
           ELSE /\ files' = [files EXCEPT !["oa_results"] = Opened]
                /\ matrix_writes' = Min(matrix_writes + 1, 2)
                /\ pc' = "oa_results_to_csv"
                /\ UNCHANGED status
    /\ UNCHANGED <<dataset_csv, memVars, overlap_scores_dir, cache, preexisting, writes,
                   miss_returned, callVars>>

\* self.unspsc_title_similarity_df.to_csv(self.OA_RESULT_PATH) done, and the return
OaResultSaved ==
    /\ At("oa_results_to_csv")
    /\ files' = [files EXCEPT !["oa_results"] = Saved(OaResult)]
    /\ pc' = "return"
    /\ status' = "finished"
    /\ UNCHANGED <<dataset_csv, memVars, overlap_scores_dir, cache, histVars, callVars>>

\* the process is killed: its memory is gone.  Inside a to_csv the file being written
\* stays as far as it was written
Kill ==
    /\ status = "running"
    /\ status' = "killed"
    /\ dataset_df' = <<>>
    /\ label_frequency_df' = <<>>
    /\ unspsc_title_similarity_df' = <<>>
    /\ crossed_lid_dfs' = <<>>
    /\ similarity' = <<>>
    /\ IF pc = "label_frequency_to_csv"
       THEN /\ \E left \in Truncations(label_frequency_df) :
                  files' = [files EXCEPT !["label_frequency"] = left]
            /\ UNCHANGED cache
       ELSE IF pc = "unspsc_title_similarity_to_csv"
       THEN /\ \E left \in Truncations(unspsc_title_similarity_df) :
                  files' = [files EXCEPT !["unspsc_title_similarity"] = left]
            /\ UNCHANGED cache
       ELSE IF pc = "oa_results_to_csv"
       THEN /\ \E left \in Truncations(OaResult) :
                  files' = [files EXCEPT !["oa_results"] = left]
            /\ UNCHANGED cache
       ELSE IF pc = "overlap_to_csv"
       THEN /\ \E left \in Truncations(DropDuplicatesSorted(crossed_lid_dfs)) :
                  cache' = Put(cache, NextName, left)
            /\ UNCHANGED files
       ELSE UNCHANGED <<files, cache>>
    /\ UNCHANGED <<dataset_csv, overlap_scores_dir, pc, histVars, callVars>>

\* a new process over the same directory: the constructor, then run_overlap_analysis
Start ==
    /\ status # "running"
    /\ dataset_df' = dataset_csv
    /\ label_frequency_df' = <<>>
    /\ unspsc_title_similarity_df' = <<>>
    /\ crossed_lid_dfs' = <<>>
    /\ similarity' = <<>>
    /\ pc' = "generate_label_frequency"
    /\ status' = "running"
    /\ preexisting' = DOMAIN cache
    /\ matrix_writes' = 0
    /\ UNCHANGED <<dataset_csv, files, overlap_scores_dir, cache, writes, miss_returned,
                   callVars>>

Next ==
    \/ LabelFrequencyFound
    \/ LabelFrequencyGenerate
    \/ LabelFrequencySaved
    \/ InterestPairsFound
    \/ InterestPairsGenerate
    \/ InterestPairsSaved
    \/ preprocess_lids
    \/ ComputeClassOverlapsCached
    \/ ComputeClassOverlapsCompute
    \/ OverlapSaved
    \/ OaResultOpen
    \/ OaResultSaved
    \/ Kill
    \/ Start

Spec == Init /\ [][Next]_vars

----------------------------------------------------------------------------
(* Properties of the batch run *)

Exceptions == {"EmptyDataError", "ZeroDivisionError", "ValueError"}
NameOf(row) == CsvName(row.label_1, row.label_2)
Hits == {i \in 1..Len(similarity) : similarity[i].path = "hit"}
Misses == {i \in 1..Len(similarity) : similarity[i].path = "miss"}

\* C1: the scalar compute_class_overlaps returns from a pair's saved cache file equals
\* the scalar returned by the computation that saved the file
C1_CacheRoundTrip ==
    \A i \in Hits :
        (NameOf(similarity[i]) \in DOMAIN miss_returned
            /\ cache[NameOf(similarity[i])].complete)
        => similarity[i].similarity = miss_returned[NameOf(similarity[i])]

\* C2: a pair whose cache file an earlier run wrote is served from the file, not computed
\* again, and no cache file is opened for writing more than once over all runs
C2_ResumeWithoutRecomputation ==
    /\ \A name \in DOMAIN writes : writes[name] <= 1
    /\ \A i \in 1..Len(similarity) :
          NameOf(similarity[i]) \in preexisting => similarity[i].path = "hit"
    /\ At("overlap_to_csv") => NextName \notin preexisting

\* a run started after a kill has served one pair from its file and computed another
C2_Witness ==
    /\ status = "running"
    /\ \E i \in Hits : NameOf(similarity[i]) \in preexisting
                       /\ writes[NameOf(similarity[i])] = 1
    /\ Misses # {}

\* the pairs of the run: those in memory, or for a killed process those of the pair file
PairsOfRun ==
    IF status = "killed" THEN files["unspsc_title_similarity"].rows
    ELSE unspsc_title_similarity_df

C4_NoTruncatedCacheRead ==
    \A i \in Hits : cache[NameOf(similarity[i])].complete

\* the whitespace-delimited tokens of a normalized record
TokensOf(lid) == Range(Split(lid))
\* no record of label_1 shares a token with a record of label_2
DistinctVocabularies(label_1, label_2) ==
    \A i, j \in 1..Len(dataset_df) :
        (dataset_df[i].v23_level3 = label_1 /\ dataset_df[j].v23_level3 = label_2)
        => TokensOf(dataset_df[i].lid_reduced) \cap TokensOf(dataset_df[j].lid_reduced) = {}

\* C8: the final matrix has one row for each pair of labels of the index, and the
\* score of a pair of labels whose records share no token is 0
C8_ZeroOverlap ==
    status = "finished" =>
        LET matrix == files["oa_results"].rows
            N == Len(label_frequency_df)
        IN  /\ 2 * Len(matrix) = N * (N - 1)
            /\ \A k \in 1..Len(matrix) :
                  DistinctVocabularies(matrix[k].label_1, matrix[k].label_2)
                  => matrix[k].similarity = Zero

\* C9: an exception in compute_class_overlaps for one pair does not end the run: the
\* other pairs are processed and the final matrix is written
C9_FailureIsolation ==
    (status \in Exceptions /\ pc = "overlap_analysis" /\ unspsc_title_similarity_df # <<>>)
    => (AllPairsDone /\ matrix_writes = 1)

----------------------------------------------------------------------------
(* Single calls of the functions above, on inputs drawn from bounded sets *)

Pending == [exc |-> "pending", val |-> <<>>]
NoCall == [fn |-> "none", args |-> <<>>]

\* the run is not part of a single call
RunIdle ==
    /\ dataset_csv = <<>>
    /\ dataset_df = <<>>
    /\ label_frequency_df = <<>>
    /\ unspsc_title_similarity_df = <<>>
    /\ crossed_lid_dfs = <<>>
    /\ similarity = <<>>
    /\ files = <<>>
    /\ overlap_scores_dir = FALSE
    /\ cache = <<>>
    /\ pc = "none"
    /\ status = "none"
    /\ preexisting = {}
    /\ writes = <<>>
    /\ miss_returned = <<>>
    /\ matrix_writes = 0

Chars == {"a", "b", " ", ",", ".", "-"}
StringsUpTo(n) == UNION {[1..k -> Chars] : k \in 0..n}
RawStrings == StringsUpTo(MaxLen)

\* what reduce_by_unigrams gives on the raw strings: the scorer's inputs
NormalizedStrings == {reduce_by_unigrams(Str(s)).val : s \in RawStrings}

InitNormalizer ==
    /\ RunIdle
    /\ call \in {[fn |-> "reduce_by_unigrams", args |-> <<x>>] :
                    x \in {Str(s) : s \in RawStrings} \cup {NaN, None, IntValue}}
    /\ ret = Pending

CallNormalizer ==
    /\ ret = Pending
    /\ call.fn = "reduce_by_unigrams"
    /\ ret' = reduce_by_unigrams(call.args[1])
    /\ UNCHANGED <<call, runVars>>

SpecNormalizer == InitNormalizer /\ [][CallNormalizer]_vars

InitScorer ==
    /\ RunIdle
    /\ call \in {[fn |-> "unigrams_in_common", args |-> <<x, y>>] :
                    x \in NormalizedStrings, y \in NormalizedStrings}
    /\ ret = Pending

CallScorer ==
    /\ ret = Pending
    /\ call.fn = "unigrams_in_common"
    /\ ret' = unigrams_in_common(call.args[1], call.args[2])
    /\ UNCHANGED <<call, runVars>>

SpecScorer == InitScorer /\ [][CallScorer]_vars

Digits == 0..MaxDigit
LevelCodes ==
    {DigitsToInt(ds) : ds \in {d \in [1..CodeWidth -> Digits] : d[1] # 0}}

InitLevel ==
    /\ RunIdle
    /\ call \in {[fn |-> "level", args |-> <<code>>] : code \in LevelCodes}
    /\ ret = Pending

CallLevel ==
    /\ ret = Pending
    /\ call.fn = "level"
    /\ ret' = Returned(Level(call.args[1]))
    /\ UNCHANGED <<call, runVars>>

SpecLevel == InitLevel /\ [][CallLevel]_vars

PairCodes == 1..MaxLabels
PairTitles == {"T1", "T2"}
\* label indexes: distinct codes in any order, titles that may collide
LabelIndexes ==
    UNION {{lf \in [1..n -> [label : PairCodes, label_title : PairTitles]] :
               \A i, j \in 1..n : i # j => lf[i].label # lf[j].label} :
           n \in 0..MaxLabels}

InitPairs ==
    /\ RunIdle
    /\ call \in {[fn |-> "generate_interest_pairs", args |-> <<lf>>] : lf \in LabelIndexes}
    /\ ret = Pending

CallPairs ==
    /\ ret = Pending
    /\ call.fn = "generate_interest_pairs"
    /\ ret' = Returned(InterestPairs(call.args[1]))
    /\ UNCHANGED <<call, runVars>>

SpecPairs == InitPairs /\ [][CallPairs]_vars

----------------------------------------------------------------------------
(* Properties of the single calls *)

Delims == {" ", ",", ".", "-"}
\* where a maximal run of characters other than ',', '.', '-' and space begins
TokenStarts(s) ==
    {i \in 1..Len(s) : s[i] \notin Delims /\ (i = 1 \/ s[i - 1] \in Delims)}
TokenAt(s, i) ==
    LET j == CHOOSE j \in i..Len(s) :
                 /\ \A k \in i..j : s[k] \notin Delims
                 /\ (j = Len(s) \/ s[j + 1] \in Delims)
    IN  SubSeq(s, i, j)
FirstStarts(s) ==
    {i \in TokenStarts(s) : \A j \in TokenStarts(s) : j < i => TokenAt(s, j) # TokenAt(s, i)}
\* the distinct tokens of s in order of first appearance, joined by single spaces
FirstAppearances(s) ==
    LET F == FirstStarts(s)
        kth(k) == CHOOSE i \in F : Cardinality({j \in F : j < i}) = k - 1
    IN  Join([k \in 1..Cardinality(F) |-> TokenAt(s, kth(k))])
NoRepeatedToken(out) ==
    LET toks == SplitSpace(out)
    IN  \A i, j \in 1..Len(toks) : i # j => toks[i] # toks[j]

NormalizerCalled == call.fn = "reduce_by_unigrams" /\ ret # Pending

\* C7 (the part on strings): on a string, reduce_by_unigrams returns the distinct tokens
\* of the string with ',', '.', '-' read as spaces, each once, in order of first appearance,
\* joined by single spaces
C7_OnStrings ==
    (NormalizerCalled /\ call.args[1].t = "str") =>
        /\ ret.exc = "none"
        /\ ret.val = FirstAppearances(call.args[1].v)
        /\ NoRepeatedToken(ret.val)

\* C7: reduce_by_unigrams returns the normalized tokens of a string, and the empty
\* string, without an error, for a null or any other input that is not a string
C7_NormalizerContract ==
    NormalizerCalled =>
        /\ ret.exc = "none"
        /\ IF call.args[1].t = "str"
           THEN ret.val = FirstAppearances(call.args[1].v) /\ NoRepeatedToken(ret.val)
           ELSE ret.val = <<>>

ScorerCalled == call.fn = "unigrams_in_common" /\ ret # Pending

\* C6: on every pair of normalized strings, the empty string included, unigrams_in_common
\* returns a ratio without raising, the ratio is in [0, 1] and the scaled score in [0, 100]
C6_RatioDefinedAndBounded ==
    ScorerCalled =>
        /\ ret.exc = "none"
        /\ RatLeq(Zero, ret.val.ratio) /\ RatLeq(ret.val.ratio, Rat(1, 1))
        /\ RatLeq(Zero, Scaled(ret.val.ratio)) /\ RatLeq(Scaled(ret.val.ratio), Rat(100, 1))

\* the scorer has answered on two empty strings
C6_Witness ==
    /\ ScorerCalled
    /\ call.args[1] = <<>>
    /\ call.args[2] = <<>>
    /\ ret.exc = "none"

PairsCalled == call.fn = "generate_interest_pairs" /\ ret # Pending
TitleOf(lf, code) == lf[CHOOSE i \in 1..Len(lf) : lf[i].label = code].label_title

\* C5: from an index of N distinct codes generate_interest_pairs makes N*(N-1)/2 rows, each
\* with label_1 < label_2, every unordered pair of distinct codes exactly once, and each
\* row's titles those of its label_1 and label_2, also when titles collide
C5_PairEnumeration ==
    PairsCalled =>
        LET lf == call.args[1]
            rows == ret.val
            N == Len(lf)
            codes == {lf[i].label : i \in 1..N}
        IN  /\ 2 * Len(rows) = N * (N - 1)
            /\ \A k \in 1..Len(rows) :
                  /\ rows[k].label_1 < rows[k].label_2
                  /\ rows[k].label_1 \in codes /\ rows[k].label_2 \in codes
                  /\ rows[k].label_title_1 = TitleOf(lf, rows[k].label_1)
                  /\ rows[k].label_title_2 = TitleOf(lf, rows[k].label_2)
            /\ \A a, b \in codes : a # b =>
                  Cardinality({k \in 1..Len(rows) :
                                  {rows[k].label_1, rows[k].label_2} = {a, b}}) = 1

\* pairs were made from an index of at least three codes, not in ascending order, in
\* which two codes share a title
C5_Witness ==
    /\ PairsCalled
    /\ Len(call.args[1]) >= 3
    /\ call.args[1][1].label > call.args[1][2].label
    /\ call.args[1][1].label_title = call.args[1][3].label_title
    /\ call.args[1][1].label_title # call.args[1][2].label_title
    /\ Len(ret.val) >= 3

LevelCalled == call.fn = "level" /\ ret # Pending
Group(digits, g) == <<digits[2 * g - 1], digits[2 * g]>>
\* four two-digit groups, the first k not "00" and the others "00"
Hierarchical(digits, k) ==
    /\ Len(digits) = CodeWidth
    /\ \A g \in 1..4 : (Group(digits, g) = <<0, 0>>) <=> (g > k)

\* C10: for a code whose first k two-digit groups are not "00" and whose other groups
\* are "00", the level derived from the start positions of "00" is k
C10_LevelIsDepth ==
    LevelCalled =>
        \A k \in 1..4 : Hierarchical(IntToStr(call.args[1]), k) => ret.val = k

\* C10 for the codes in which at most one group that is not "00" ends in 0 and is
\* followed by a 0
C10_LevelIsDepthOneStraddle ==
    LevelCalled =>
        LET digits == IntToStr(call.args[1])
            straddles == {g \in 1..3 : digits[2 * g] = 0 /\ digits[2 * g + 1] = 0
                                       /\ Group(digits, g) # <<0, 0>>}
        IN  \A k \in 1..4 :
                (Hierarchical(digits, k) /\ Cardinality(straddles) <= 1) => ret.val = k

====
